---- MODULE Spec2Model ----
\* Model of src/app.py: the POST /predict handler (encode, assemble, classify,
\* store, respond) and the pure feature encoders it is built from.
\*
\* Python values are tagged records, so that values of different Python types
\* can be compared: None, numbers, strings (sequences of characters) and the
\* literals the handler itself writes.  Numbers are integers in the model.
EXTENDS Integers, Sequences, FiniteSets, TLC

VARIABLES requests, responses, store, log, arg, ret

vars == <<requests, responses, store, log, arg, ret>>

(***************************************************************************)
(* Python values                                                           *)
(***************************************************************************)
None == [none |-> TRUE]

Num(n) == [num |-> n]

Str(s) == [str |-> s]

Lit(s) == [lit |-> s]

IsNone(v) == "none" \in DOMAIN v

IsNum(v) == "num" \in DOMAIN v

IsStr(v) == "str" \in DOMAIN v

\* An operation either returns a value or raises an exception.
Ok(v) == [ret |-> v]

Raises(e) == [exc |-> e]

IsExc(r) == "exc" \in DOMAIN r

\* dict.get(key) and dict.get(key, default)
Get(d, k) == IF k \in DOMAIN d THEN d[k] ELSE None

GetOr(d, k, default) == IF k \in DOMAIN d THEN d[k] ELSE default

\* int(bool)
BoolInt(b) == IF b THEN 1 ELSE 0

(***************************************************************************)
(* str.upper, str.lower, str.strip on sequences of characters              *)
(***************************************************************************)
LowerChars == <<"a","b","c","d","e","f","g","h","i","j","k","l","m",
                "n","o","p","q","r","s","t","u","v","w","x","y","z">>

UpperChars == <<"A","B","C","D","E","F","G","H","I","J","K","L","M",
                "N","O","P","Q","R","S","T","U","V","W","X","Y","Z">>

Whitespace == {" ", "\t"}

upper_char(c) ==
    IF \E i \in 1..26 : LowerChars[i] = c
    THEN UpperChars[CHOOSE i \in 1..26 : LowerChars[i] = c]
    ELSE c

lower_char(c) ==
    IF \E i \in 1..26 : UpperChars[i] = c
    THEN LowerChars[CHOOSE i \in 1..26 : UpperChars[i] = c]
    ELSE c

upper(s) == [i \in 1..Len(s) |-> upper_char(s[i])]

lower(s) == [i \in 1..Len(s) |-> lower_char(s[i])]

RECURSIVE lstrip(_)
lstrip(s) ==
    IF s # <<>> /\ Head(s) \in Whitespace THEN lstrip(Tail(s)) ELSE s

RECURSIVE rstrip(_)
rstrip(s) ==
    IF s # <<>> /\ s[Len(s)] \in Whitespace
    THEN rstrip(SubSeq(s, 1, Len(s) - 1))
    ELSE s

\* A variant of strip that trims nothing.
strip_noop(s) == s

strip(s) == rstrip(lstrip(s))

(***************************************************************************)
(* The string literals of the encoders                                     *)
(***************************************************************************)
EMERGENCY == <<"E","M","E","R","G","E","N","C","Y">>

URGENT == <<"U","R","G","E","N","T">>

HOME == <<"H","O","M","E">>

HOME_HEALTH_CARE == <<"H","O","M","E"," ","H","E","A","L","T","H"," ","C","A","R","E">>

SNF == <<"S","N","F">>

SHORT_TERM_HOSPITAL ==
    <<"S","H","O","R","T"," ","T","E","R","M"," ","H","O","S","P","I","T","A","L">>

REHAB_DISTINCT_PART_HOSP ==
    <<"R","E","H","A","B","/","D","I","S","T","I","N","C","T"," ",
      "P","A","R","T"," ","H","O","S","P">>

OTHER_FACILITY == <<"O","T","H","E","R"," ","F","A","C","I","L","I","T","Y">>

AdmissionKeys == <<"admission_type_EMERGENCY", "admission_type_URGENT">>

DischargeKeys ==
    <<"discharge_location_HOME",
      "discharge_location_HOME HEALTH CARE",
      "discharge_location_SNF",
      "discharge_location_SHORT TERM HOSPITAL",
      "discharge_location_REHAB/DISTINCT PART HOSP",
      "discharge_location_OTHER FACILITY">>

DischargeCategories ==
    <<HOME, HOME_HEALTH_CARE, SNF, SHORT_TERM_HOSPITAL,
      REHAB_DISTINCT_PART_HOSP, OTHER_FACILITY>>

(***************************************************************************)
(* Feature encoders                                                        *)
(***************************************************************************)
\* A str method called on a value that is not a str (None, a number).
NotAStr(v) == ~IsStr(v)

TypeName(v) ==
    IF IsNone(v) THEN "NoneType"
    ELSE IF IsNum(v) THEN "int"
    ELSE IF IsStr(v) THEN "str"
    ELSE IF "list" \in DOMAIN v THEN "list"
    ELSE "dict"

\* str(e) of the AttributeError of v.method
AttributeError(v, method) ==
    Raises("'" \o TypeName(v) \o "' object has no attribute '" \o method \o "'")

encode_admission_type(admission_type) ==
    IF NotAStr(admission_type) THEN AttributeError(admission_type, "upper")
    ELSE Ok([k \in {AdmissionKeys[1], AdmissionKeys[2]} |->
               IF k = AdmissionKeys[1]
               THEN Num(BoolInt(upper(admission_type.str) = EMERGENCY))
               ELSE Num(BoolInt(upper(admission_type.str) = URGENT))])

NAN == <<"n","a","n">>

ABNORMAL == <<"a","b","n","o","r","m","a","l">>

DELTA == <<"d","e","l","t","a">>

encode_flag(flag_value) ==
    IF NotAStr(flag_value) THEN AttributeError(flag_value, "lower")
    ELSE LET key == lower(flag_value.str)
         IN  Ok(CASE key = NAN -> 0
                  [] key = ABNORMAL -> 1
                  [] key = DELTA -> 2
                  [] OTHER -> 0)

\* A variant of encode_discharge_location that matches a category by prefix
\* (startswith) instead of equality.
IsPrefix(p, s) == Len(p) <= Len(s) /\ SubSeq(s, 1, Len(p)) = p

encode_discharge_location_prefix(value) ==
    IF NotAStr(value) THEN AttributeError(value, "strip")
    ELSE LET v == upper(strip(value.str))
         IN  Ok([k \in {DischargeKeys[i] : i \in 1..6} |->
                   LET i == CHOOSE j \in 1..6 : DischargeKeys[j] = k
                   IN  Num(BoolInt(IsPrefix(DischargeCategories[i], v)))])

encode_discharge_location(value) ==
    IF NotAStr(value) THEN AttributeError(value, "strip")
    ELSE LET v == upper(strip(value.str))
         IN  Ok([k \in {DischargeKeys[i] : i \in 1..6} |->
                   LET i == CHOOSE j \in 1..6 : DischargeKeys[j] = k
                   IN  Num(BoolInt(v = DischargeCategories[i]))])

MEDICARE == <<"M","e","d","i","c","a","r","e">>

MEDICAID == <<"M","e","d","i","c","a","i","d">>

PRIVATE == <<"P","r","i","v","a","t","e">>

SELF_PAY == <<"S","e","l","f"," ","P","a","y">>

GOVERNMENT == <<"G","o","v","e","r","n","m","e","n","t">>

\* dict.get with any hashable key: None and numbers simply miss.
get_insurance_risk(insurance_type) ==
    IF ~IsStr(insurance_type) THEN 0
    ELSE CASE insurance_type.str = MEDICARE -> 3
           [] insurance_type.str = MEDICAID -> 4
           [] insurance_type.str = PRIVATE -> 1
           [] insurance_type.str = SELF_PAY -> 2
           [] insurance_type.str = GOVERNMENT -> 2
           [] OTHER -> 0

(***************************************************************************)
(* datetime.strptime(s, "%Y-%m-%d %H:%M:%S"), datetime subtraction         *)
(***************************************************************************)
DigitChars == <<"0","1","2","3","4","5","6","7","8","9">>

IsDigit(c) == \E i \in 1..10 : DigitChars[i] = c

DigitVal(c) == (CHOOSE i \in 1..10 : DigitChars[i] = c) - 1

At(s, p) == IF p \in 1..Len(s) THEN s[p] ELSE ""

\* Number of consecutive digits of s from position p on.
RECURSIVE DigitRun(_, _)
DigitRun(s, p) == IF IsDigit(At(s, p)) THEN 1 + DigitRun(s, p + 1) ELSE 0

\* Number of consecutive whitespace characters of s from position p on.
RECURSIVE SpaceRun(_, _)
SpaceRun(s, p) == IF At(s, p) \in Whitespace THEN 1 + SpaceRun(s, p + 1) ELSE 0

\* Value of the n digits of s from position p on.
RECURSIVE ToInt(_, _, _)
ToInt(s, p, n) ==
    IF n = 0 THEN 0 ELSE 10 * ToInt(s, p, n - 1) + DigitVal(s[p + n - 1])

is_leap(y) == y % 4 = 0 /\ (y % 100 # 0 \/ y % 400 = 0)

days_in_month(y, m) ==
    IF m = 2 THEN (IF is_leap(y) THEN 29 ELSE 28)
    ELSE IF m \in {4, 6, 9, 11} THEN 30 ELSE 31

RECURSIVE days_before_month(_, _)
days_before_month(y, m) ==
    IF m = 1 THEN 0 ELSE days_before_month(y, m - 1) + days_in_month(y, m - 1)

days_before_year(y) ==
    (y - 1) * 365 + ((y - 1) \div 4) - ((y - 1) \div 100) + ((y - 1) \div 400)

toordinal(dt) ==
    days_before_year(dt.year) + days_before_month(dt.year, dt.month) + dt.day

SecondsPerDay == 24 * 60 * 60

second_of_day(dt) == dt.hour * 3600 + dt.minute * 60 + dt.second

\* The format "%Y-%m-%d %H:%M:%S", one entry per directive or literal.
Format == <<"Y", "-", "m", "-", "d", " ", "H", ":", "M", ":", "S">>

\* The values the regex of a one- or two-digit directive accepts, written
\* with two digits and with one.
TwoDigit(directive) ==
    CASE directive = "m" -> 1..12
      [] directive = "d" -> 1..31
      [] directive = "H" -> 0..23
      [] directive = "M" -> 0..59
      [] directive = "S" -> 0..61

OneDigit(directive) == IF directive \in {"m", "d"} THEN 1..9 ELSE 0..9

\* Matching s from position p against the format from entry k on; found
\* holds the directives matched so far.  %Y is four digits; the other
\* directives take two digits when these are in the directive's range, else
\* one; the blank of the format is one or more whitespace characters; nothing
\* may remain after %S.  The datetime constructor then rejects a second
\* above 59 and a day beyond the month's last.  (The blank-padded alternative
\* of %d is left out.)
RECURSIVE Match(_, _, _, _)
Match(s, p, k, found) ==
    IF k > Len(Format)
    THEN IF p # Len(s) + 1 THEN Raises("unconverted data remains")
         ELSE IF found["S"] > 59 THEN Raises("second must be in 0..59")
         ELSE IF found["d"] > days_in_month(found["Y"], found["m"])
         THEN Raises("day is out of range for month")
         ELSE Ok([year |-> found["Y"], month |-> found["m"], day |-> found["d"],
                  hour |-> found["H"], minute |-> found["M"], second |-> found["S"]])
    ELSE
    LET f == Format[k]
        n == DigitRun(s, p)
    IN  CASE f \in {"-", ":"} ->
                IF At(s, p) = f THEN Match(s, p + 1, k + 1, found)
                ELSE Raises("time data does not match format")
          [] f = " " ->
                IF SpaceRun(s, p) >= 1 THEN Match(s, p + SpaceRun(s, p), k + 1, found)
                ELSE Raises("time data does not match format")
          [] f = "Y" ->
                IF n >= 4 THEN Match(s, p + 4, k + 1, (f :> ToInt(s, p, 4)) @@ found)
                ELSE Raises("time data does not match format")
          [] OTHER ->
                IF n >= 2 /\ ToInt(s, p, 2) \in TwoDigit(f)
                THEN Match(s, p + 2, k + 1, (f :> ToInt(s, p, 2)) @@ found)
                ELSE IF n >= 1 /\ ToInt(s, p, 1) \in OneDigit(f)
                THEN Match(s, p + 1, k + 1, (f :> ToInt(s, p, 1)) @@ found)
                ELSE Raises("time data does not match format")

strptime(v) ==
    IF NotAStr(v) THEN Raises("strptime() argument 1 must be str, not " \o TypeName(v))
    ELSE Match(v.str, 1, 1, <<>>)

\* A variant of timedelta whose days round toward zero.
TruncDiv(a, b) == IF a >= 0 THEN a \div b ELSE -((-a) \div b)

timedelta_trunc(days, seconds) ==
    [days    |-> days + TruncDiv(seconds, SecondsPerDay),
     seconds |-> seconds - SecondsPerDay * TruncDiv(seconds, SecondsPerDay)]

\* timedelta(days, seconds) normalises so that 0 <= seconds < 86400.
timedelta(days, seconds) ==
    [days    |-> days + (seconds \div SecondsPerDay),
     seconds |-> seconds % SecondsPerDay]

\* datetime.__sub__
datetime_sub(a, b) ==
    timedelta(toordinal(a) - toordinal(b), second_of_day(a) - second_of_day(b))

calculate_length_of_stay(admit_time_str, discharge_time_str) ==
    LET admit_time == strptime(admit_time_str)
        discharge_time == strptime(discharge_time_str)
    IN  IF IsExc(admit_time) THEN admit_time
        ELSE IF IsExc(discharge_time) THEN discharge_time
        ELSE Ok(datetime_sub(discharge_time.ret, admit_time.ret).days)

\* datetime.weekday(): Monday is 0.
get_admit_weekday(admit_time_str) ==
    LET admit_time == strptime(admit_time_str)
    IN  IF IsExc(admit_time) THEN admit_time
        ELSE Ok((toordinal(admit_time.ret) + 6) % 7)

(***************************************************************************)
(* POST /predict                                                           *)
(***************************************************************************)
\* float(v): None raises TypeError, a str of digits is converted, any other
\* str raises ValueError.
float(v) ==
    IF IsNum(v) THEN Ok(v.num)
    ELSE IF IsStr(v)
    THEN IF v.str # <<>> /\ DigitRun(v.str, 1) = Len(v.str)
         THEN Ok(ToInt(v.str, 1, Len(v.str)))
         ELSE Raises("could not convert string to float")
    ELSE Raises("float() argument must be a string or a real number, not '"
                    \o TypeName(v) \o "'")

\* The request keys the ten lab values are read from, in reading order.
LabKeys ==
    <<"ntprobnp", "creatinine", "urea_nitrogen", "sodium", "potassium",
      "albumin", "c_reactive_protein", "hemoglobin", "hematocrit", "magnesium">>

\* The request keys the ten flags are read from ...
FlagRequestKeys ==
    <<"ntprobnp_flag", "creatinine_flag", "urea_nitrogen_flag", "sodium_flag",
      "potassium_flag", "albumin_flag", "c_reactive_protein_flag",
      "hemoglobin_flag", "hematocrit_flag", "magnesium_flag">>

\* ... and the keys of the flags dict they are written to.
FlagKeys ==
    <<"ntprobnp_flag", "creatinine_flag", "urea nitrogen_flag", "sodium_flag",
      "potassium_flag", "albumin_flag", "c-reactive protein_flag",
      "hemoglobin_flag", "hematocrit_flag", "magnesium_flag">>

feature_order ==
    <<"ntprobnp", "ntprobnp_flag", "creatinine", "creatinine_flag",
      "urea nitrogen", "urea nitrogen_flag", "sodium", "sodium_flag",
      "potassium", "potassium_flag", "albumin", "albumin_flag",
      "c-reactive protein", "c-reactive protein_flag", "hemoglobin", "hemoglobin_flag",
      "hematocrit", "hematocrit_flag", "magnesium", "magnesium_flag",
      "admission_type_EMERGENCY", "admission_type_URGENT",
      "discharge_location_HOME", "discharge_location_HOME HEALTH CARE",
      "discharge_location_SNF", "discharge_location_SHORT TERM HOSPITAL",
      "discharge_location_REHAB/DISTINCT PART HOSP", "discharge_location_OTHER FACILITY",
      "insurance_risk", "length_of_stay", "admit_weekday">>

Range(seq) == {seq[i] : i \in 1..Len(seq)}

IndexOf(seq, x) == CHOOSE i \in 1..Len(seq) : seq[i] = x

\* The first exception of a sequence of outcomes, in evaluation order.
FirstExc(rs) ==
    rs[CHOOSE i \in 1..Len(rs) : IsExc(rs[i]) /\ \A j \in 1..(i - 1) : ~IsExc(rs[j])]

\* Lines 76-147: the encoding steps in the order the handler runs them, and
\* the result dict they are merged into (all but its timestamp); the first
\* step that raises ends it.
Encode(data) ==
    LET labs      == [i \in 1..10 |-> float(Get(data, LabKeys[i]))]
        flags     == [i \in 1..10 |-> encode_flag(Get(data, FlagRequestKeys[i]))]
        admission == encode_admission_type(Get(data, "admission_type"))
        discharge == encode_discharge_location(Get(data, "discharge_location"))
        insurance_risk == get_insurance_risk(Get(data, "insurance"))
        length_of_stay ==
            calculate_length_of_stay(Get(data, "admit_time"), Get(data, "discharge_time"))
        admit_weekday == get_admit_weekday(Get(data, "admit_time"))
        steps == labs \o flags \o <<admission, discharge, length_of_stay, admit_weekday>>
    IN  IF \E i \in 1..Len(steps) : IsExc(steps[i]) THEN FirstExc(steps)
        ELSE Ok(
            [k \in {"patient_id", "patient_name"} |-> Get(data, k)]
            @@ [k \in Range(LabKeys) |-> Num(labs[IndexOf(LabKeys, k)].ret)]
            @@ [k \in Range(FlagKeys) |-> Num(flags[IndexOf(FlagKeys, k)].ret)]
            @@ admission.ret
            @@ discharge.ret
            @@ ("insurance" :> Get(data, "insurance"))
            @@ ("insurance_risk" :> Num(insurance_risk))
            @@ ("length_of_stay" :> Num(length_of_stay.ret))
            @@ ("admit_weekday" :> Num(admit_weekday.ret))
            @@ [k \in {"admission_type", "discharge_location", "admit_time",
                       "discharge_time"} |-> Get(data, k)])

\* A variant of Assemble that leaves out the features the dict lacks.
Assemble_present_only(result) ==
    LET present == SelectSeq(feature_order, LAMBDA f : f \in DOMAIN result)
    IN  [i \in 1..Len(present) |-> result[present[i]].num]

\* Line 152: [result.get(f, 0) for f in feature_order]
Assemble(result) ==
    [i \in 1..Len(feature_order) |-> GetOr(result, feature_order[i], Num(0)).num]

\* request.get_json().  A body that is JSON yields the parsed value; one that
\* is not raises BadRequest.  What an absent body yields depends on the
\* installed framework and on the Content-Type header: None, or an
\* HTTPException (415 Unsupported Media Type, 400 Bad Request).
get_json(body, absent_outcome) ==
    CASE body.kind = "json" -> Ok(body.data)
      [] body.kind = "malformed" -> Raises("400 Bad Request")
      [] body.kind = "absent" ->
            IF absent_outcome = "none" THEN Ok(None)
            ELSE Raises("415 Unsupported Media Type")

IsDict(v) == "dict" \in DOMAIN v

\* Python truth value of a parsed JSON value.
Truthy(v) ==
    IF IsNone(v) THEN FALSE
    ELSE IF IsDict(v) THEN DOMAIN v.dict # {}
    ELSE IF "list" \in DOMAIN v THEN v.list # <<>>
    ELSE IF IsNum(v) THEN v.num # 0
    ELSE v.str # <<>>

\* A variant of ErrorResponse that answers 400.
ErrorResponse_400(message) == [status |-> 400, body |-> [error |-> message]]

\* Lines 171-172
ErrorResponse(message) == [status |-> 500, body |-> [error |-> message]]

\* A variant of PredictionResult that thresholds the probability.
PredictionResult_by_probability(prediction, probability) ==
    Lit(IF probability > 50 THEN "Yes" ELSE "No")

\* Line 158
PredictionResult(prediction, probability) ==
    Lit(IF prediction = 1 THEN "Yes" ELSE "No")

\* A variant of insert_one that overwrites the newest document.
insert_one_replacing(collection, id, doc) ==
    IF collection = <<>> THEN <<[_id |-> id, doc |-> doc]>>
    ELSE [collection EXCEPT ![Len(collection)] = [_id |-> id, doc |-> doc]]

\* Line 163: the collection after an acknowledged insert_one; the store
\* assigns the document its _id.
insert_one(collection, id, doc) == Append(collection, [_id |-> id, doc |-> doc])

(***************************************************************************)
(* Notation shared by the specifications                                   *)
(***************************************************************************)
\* The value of ret before the operation under study has run.
Pending == [pending |-> TRUE]

IsPending(r) == "pending" \in DOMAIN r

Mixed(s) == [i \in 1..Len(s) |-> IF i % 2 = 0 THEN lower_char(s[i]) ELSE s[i]]

HandlerIdle ==
    /\ requests = <<>>
    /\ responses = <<>>
    /\ store = <<>>
    /\ log = <<>>

mainvars == <<requests, responses, store, log>>

Digits(n, width) == [i \in 1..width |-> DigitChars[((n \div (10 ^ (width - i))) % 10) + 1]]

Written(dt) ==
    Digits(dt.year, 4) \o <<"-">> \o Digits(dt.month, 2) \o <<"-">> \o
    Digits(dt.day, 2) \o <<" ">> \o Digits(dt.hour, 2) \o <<":">> \o
    Digits(dt.minute, 2) \o <<":">> \o Digits(dt.second, 2)

(***************************************************************************)
(* Request bodies                                                          *)
(***************************************************************************)
Without(d, keys) == [k \in DOMAIN d \ keys |-> d[k]]

With(d, k, v) == (k :> v) @@ d

Stamp(y, mo, d, h, mi, sec) ==
    Str(Written([year |-> y, month |-> mo, day |-> d,
                 hour |-> h, minute |-> mi, second |-> sec]))

\* A complete request.
Complete ==
    [k \in Range(LabKeys) |-> Num(10 * IndexOf(LabKeys, k) + 1)]
    @@ ("patient_id" :> Str(<<"P","1">>))
    @@ ("patient_name" :> Str(<<"A","n","n">>))
    @@ ("ntprobnp_flag" :> Str(ABNORMAL))
    @@ ("creatinine_flag" :> Str(NAN))
    @@ ("urea_nitrogen_flag" :> Str(DELTA))
    @@ ("sodium_flag" :> Str(upper(NAN)))
    @@ ("potassium_flag" :> Str(Mixed(upper(ABNORMAL))))
    @@ ("albumin_flag" :> Str(<<"h","i","g","h">>))
    @@ ("c_reactive_protein_flag" :> Str(upper(DELTA)))
    @@ ("hemoglobin_flag" :> Str(<<>>))
    @@ ("hematocrit_flag" :> Str(NAN))
    @@ ("magnesium_flag" :> Str(ABNORMAL))
    @@ ("admission_type" :> Str(EMERGENCY))
    @@ ("discharge_location" :> Str(HOME_HEALTH_CARE))
    @@ ("insurance" :> Str(MEDICARE))
    @@ ("admit_time" :> Stamp(2024, 1, 1, 8, 0, 0))
    @@ ("discharge_time" :> Stamp(2024, 1, 3, 10, 0, 0))

\* Complete enough: no insurance and no patient fields, a lab value sent as
\* a string, other spellings, a discharge before the admission.
Sparse ==
    ("sodium" :> Str(<<"1","3","8">>))
    @@ ("admission_type" :> Str(lower(URGENT)))
    @@ ("discharge_location" :> Str(<<" ">> \o lower(OTHER_FACILITY) \o <<" ">>))
    @@ ("admit_time" :> Stamp(2024, 3, 1, 8, 0, 0))
    @@ ("discharge_time" :> Stamp(2024, 2, 29, 7, 0, 0))
    @@ Without(Complete, {"insurance", "patient_id", "patient_name"})

Dict(d) == [dict |-> d]

Json(v) == [kind |-> "json", data |-> v]

Bodies ==
    { Json(Dict(Complete)),
      Json(Dict(Sparse)),
      Json(Dict(Without(Complete, {"ntprobnp_flag"}))),
      Json(Dict(Without(Sparse, Range(FlagRequestKeys)))),
      Json(Dict(Without(Complete, {"creatinine"}))),
      Json(Dict(With(Complete, "creatinine", Str(<<"a","b","c">>)))),
      Json(Dict(With(Complete, "admit_time", Stamp(2024, 2, 30, 8, 0, 0)))),
      Json(Dict(Without(Complete, {"discharge_time"}))),
      Json(Dict(Without(Complete, {"admission_type"}))),
      Json(Dict(Without(Complete, {"discharge_location"}))),
      Json(Dict(<<>>)),
      Json(None),
      Json([list |-> <<1>>]),
      [kind |-> "malformed"],
      [kind |-> "absent"] }

(***************************************************************************)
(* The handler                                                             *)
(***************************************************************************)
\* Encode is a function of the request data alone: its values on the request
\* bodies are tabulated once.
EncodeTable ==
    [d \in {b.data.dict : b \in {x \in Bodies : x.kind = "json" /\ IsDict(x.data)}}
        |-> Encode(d)]

Encoding(data) == EncodeTable[data]

\* Lines 151-169: assemble the vector, classify, store, respond.
classify_and_store(n, result, classifier, insert_ok) ==
    LET X == Assemble(result)
        calls == <<[req |-> n, op |-> "predict", X |-> X, features |-> result,
                    out |-> classifier.predict],
                   [req |-> n, op |-> "predict_proba", X |-> X,
                    out |-> classifier.predict_proba],
                   [req |-> n, op |-> "insert_one",
                    out |-> IF insert_ok THEN Ok(n) ELSE Raises("store failure")]>>
    IN  IF IsExc(classifier.predict)
        THEN [response |-> ErrorResponse(classifier.predict.exc),
              store |-> store, log |-> log \o SubSeq(calls, 1, 1)]
        ELSE IF IsExc(classifier.predict_proba)
        THEN [response |-> ErrorResponse(classifier.predict_proba.exc),
              store |-> store, log |-> log \o SubSeq(calls, 1, 2)]
        ELSE IF ~insert_ok
        THEN [response |-> ErrorResponse("store failure"),
              store |-> store, log |-> log \o calls]
        ELSE [response |->
                [status |-> 200,
                 body |-> [prediction |-> classifier.predict.ret,
                           probability |-> classifier.predict_proba.ret,
                           message |-> "Prediction successful"]],
              store |-> insert_one(store, n,
                  ("prediction_result" :>
                        PredictionResult(classifier.predict.ret,
                                         classifier.predict_proba.ret))
                  @@ ("readmission_probability" :> Num(classifier.predict_proba.ret))
                  @@ result),
              log |-> log \o calls]

\* Lines 76-169, for the parsed request data.
encode_and_classify(n, data, classifier, insert_ok) ==
    LET encoded == Encoding(data)
    IN  IF IsExc(encoded)
        THEN [response |-> ErrorResponse(encoded.exc), store |-> store, log |-> log]
        ELSE classify_and_store(n, encoded.ret @@ ("timestamp" :> Num(n)),
                                classifier, insert_ok)

\* The handler, for request number n: the response, the collection and the
\* log of calls to the collaborators after it.  absent_outcome, classifier
\* and insert_ok are what the framework, the classifier and the store do
\* during this request.
predict(n, body, absent_outcome, classifier, insert_ok) ==
    LET data == get_json(body, absent_outcome)
    IN  IF IsExc(data)
        THEN [response |-> ErrorResponse(data.exc), store |-> store, log |-> log]
        ELSE IF ~Truthy(data.ret)
        THEN [response |-> [status |-> 400, body |-> [error |-> "No data provided"]],
              store |-> store, log |-> log]
        ELSE IF ~IsDict(data.ret)
        THEN [response |-> ErrorResponse(AttributeError(data.ret, "get").exc),
              store |-> store, log |-> log]
        ELSE encode_and_classify(n, data.ret.dict, classifier, insert_ok)

\* Lines 174-177
health_check == [status |-> 200, body |-> [status |-> "healthy"]]

(***************************************************************************)
(* The service: requests are handled one after the other                   *)
(***************************************************************************)
MaxRequests == 2

Labels == {0, 1}

\* Probabilities, in percent.
Probabilities == {18, 82}

ClassifierOutcomes ==
    {[predict |-> Raises("classifier failure"),
      predict_proba |-> Raises("classifier failure")]}
    \cup {[predict |-> Ok(l), predict_proba |-> Raises("classifier failure")] :
            l \in Labels}
    \cup {[predict |-> Ok(l), predict_proba |-> Ok(p)] :
            l \in Labels, p \in Probabilities}

Init ==
    /\ HandlerIdle
    /\ arg = None
    /\ ret = Pending

\* Whether the handler, given this body, gets as far as the classifier.
ReachesClassifier(body) ==
    /\ body.kind = "json"
    /\ IsDict(body.data)
    /\ Truthy(body.data)
    /\ ~IsExc(Encoding(body.data.dict))

\* What the framework, the classifier and the store do is chosen only for
\* the requests that get to them.
PostPredict ==
    /\ Len(requests) < MaxRequests
    /\ \E body \in Bodies :
        LET n == Len(requests) + 1
            reaches == ReachesClassifier(body)
        IN  \E absent_outcome \in
                    IF body.kind = "absent" THEN {"none", "raise"} ELSE {"none"},
               classifier \in
                    IF reaches THEN ClassifierOutcomes
                    ELSE {[predict |-> Ok(0), predict_proba |-> Ok(0)]},
               insert_ok \in IF reaches THEN BOOLEAN ELSE {TRUE} :
                LET r == predict(n, body, absent_outcome, classifier, insert_ok)
                IN  /\ requests' = Append(requests, [route |-> "/predict", body |-> body])
                    /\ responses' = Append(responses, r.response)
                    /\ store' = r.store
                    /\ log' = r.log
    /\ UNCHANGED <<arg, ret>>

GetHealth ==
    /\ Len(requests) < MaxRequests
    /\ requests' = Append(requests, [route |-> "/health"])
    /\ responses' = Append(responses, health_check)
    /\ UNCHANGED <<store, log, arg, ret>>

Next == PostPredict \/ GetHealth

Spec == Init /\ [][Next]_vars

(***************************************************************************)
(* Inputs of the encoder specification: category names and near misses, in *)
(* three spellings, with up to MaxPad whitespace characters on each side   *)
(***************************************************************************)
MaxPad == 1

Pads == UNION {[1..k -> Whitespace] : k \in 0..MaxPad}

Spellings(core) == {core, lower(core), Mixed(core)}

DischargeCores ==
    {DischargeCategories[i] : i \in 1..6} \cup
    { <<>>,
      <<"H","O","M","E"," ","H","E","A","L","T","H">>,
      <<"O","T","H","E","R">>,
      <<"H","O"," ","M","E">>,
      <<"H","O","S","P","I","C","E">> }

AdmissionInputs ==
    UNION {Spellings(c) : c \in {EMERGENCY, URGENT, <<"R","O","U","T","I","N","E">>}}
    \cup {<<" ">> \o lower(URGENT)}

EncArgs ==
    UNION {
        {[admission_type |-> Str(a), core |-> c,
          discharge_location |-> Str(l \o w \o r)] :
            a \in AdmissionInputs, w \in Spellings(c), l \in Pads, r \in Pads}
        : c \in DischargeCores}

InitEnc ==
    /\ HandlerIdle
    /\ arg \in EncArgs
    /\ ret = [admission |-> Pending, discharge |-> Pending]

EncodeAdmission ==
    /\ "admission_type" \in DOMAIN arg
    /\ IsPending(ret.admission)
    /\ ret' = [ret EXCEPT !.admission = encode_admission_type(arg.admission_type)]
    /\ UNCHANGED <<arg, mainvars>>

EncodeDischarge ==
    /\ "discharge_location" \in DOMAIN arg
    /\ IsPending(ret.discharge)
    /\ ret' = [ret EXCEPT !.discharge = encode_discharge_location(arg.discharge_location)]
    /\ UNCHANGED <<arg, mainvars>>

NextEnc == EncodeAdmission \/ EncodeDischarge

SpecEnc == InitEnc /\ [][NextEnc]_vars

(***************************************************************************)
(* Properties of the encoders (SpecEnc)                                    *)
(***************************************************************************)
\* The encoded feature set once both encoders have run (merged as in the
\* handler's result dict).
EncodedFeatures == ret.admission.ret @@ ret.discharge.ret

EncodersDone ==
    /\ "admission" \in DOMAIN ret
    /\ ~IsPending(ret.admission) /\ ~IsPending(ret.discharge)
    /\ ~IsExc(ret.admission) /\ ~IsExc(ret.discharge)

Ones(f, keys) == {i \in 1..Len(keys) : f[keys[i]] = Num(1)}

\* C7: in every encoded feature set at most one of the two admission-type
\* indicators is 1 and at most one of the six discharge-location indicators
\* is 1, whatever the admission_type and discharge_location strings are.
C7_IndicatorsExclusive ==
    EncodersDone =>
        /\ Cardinality(Ones(EncodedFeatures, AdmissionKeys)) <= 1
        /\ Cardinality(Ones(EncodedFeatures, DischargeKeys)) <= 1

\* A feature set in which an admission indicator and the indicator of
\* HOME HEALTH CARE (whose name starts with HOME) are both set.
C7_Witness ==
    /\ EncodersDone
    /\ Cardinality(Ones(EncodedFeatures, AdmissionKeys)) = 1
    /\ Ones(EncodedFeatures, DischargeKeys) = {2}

\* C8: encode_discharge_location(s) sets the indicator of category C exactly
\* when s is C in some letter case with whitespace around it, for each of the
\* six categories (so "other facility" sets the OTHER FACILITY indicator);
\* every other string yields six zeros; no string raises.
C8_DischargeExactMatch ==
    ("discharge" \in DOMAIN ret /\ ~IsPending(ret.discharge)) =>
        /\ ~IsExc(ret.discharge)
        /\ DOMAIN ret.discharge.ret = {DischargeKeys[i] : i \in 1..6}
        /\ \A i \in 1..6 :
              /\ ret.discharge.ret[DischargeKeys[i]] \in {Num(0), Num(1)}
              /\ ret.discharge.ret[DischargeKeys[i]] = Num(1)
                    <=> arg.core = DischargeCategories[i]
        /\ arg.discharge_location = Str(lower(OTHER_FACILITY))
              => ret.discharge.ret["discharge_location_OTHER FACILITY"] = Num(1)

\* "other facility" with whitespace around it has been encoded and set the
\* OTHER FACILITY indicator.
C8_Witness ==
    /\ "discharge" \in DOMAIN ret /\ ~IsPending(ret.discharge)
    /\ arg.discharge_location = Str(<<" ">> \o lower(OTHER_FACILITY) \o <<"\t">>)
    /\ ~IsExc(ret.discharge)
    /\ Ones(ret.discharge.ret, DischargeKeys) = {6}

(***************************************************************************)
(* Inputs of the length-of-stay specification: pairs of timestamps, written*)
(* out in the format the parser reads                                      *)
(***************************************************************************)
MaxMonth == 3

MaxDay == 3

TimesOfDay ==
    {[hour |-> 0, minute |-> 0, second |-> 0],
     [hour |-> 7, minute |-> 0, second |-> 0],
     [hour |-> 8, minute |-> 0, second |-> 0],
     [hour |-> 10, minute |-> 0, second |-> 0],
     [hour |-> 23, minute |-> 59, second |-> 59]}

Moments ==
    {[year |-> y, month |-> m, day |-> d,
      hour |-> t.hour, minute |-> t.minute, second |-> t.second] :
        y \in {2023, 2024}, m \in 1..MaxMonth, d \in 1..MaxDay, t \in TimesOfDay}

LosArgs ==
    {[admit |-> a, discharge |-> d,
      admit_time |-> Str(Written(a)), discharge_time |-> Str(Written(d))] :
        a \in Moments, d \in Moments}

InitLos ==
    /\ HandlerIdle
    /\ arg \in LosArgs
    /\ ret = Pending

LengthOfStay ==
    /\ IsPending(ret)
    /\ ret' = calculate_length_of_stay(arg.admit_time, arg.discharge_time)
    /\ UNCHANGED <<arg, mainvars>>

NextLos == LengthOfStay

SpecLos == InitLos /\ [][NextLos]_vars

\* Seconds from the admit moment to the discharge moment.
Elapsed ==
    (toordinal(arg.discharge) - toordinal(arg.admit)) * SecondsPerDay
        + second_of_day(arg.discharge) - second_of_day(arg.admit)

\* C9: calculate_length_of_stay returns the floor of (discharge - admit) in
\* days: 0 for a stay of at least 0 and under 24 hours, 2 for a stay of
\* 2 days and 2 hours, and a negative value rounded toward negative infinity
\* when discharge precedes admit (-1 when discharge is one hour before admit).
C9_LengthOfStayIsFloor ==
    ("admit_time" \in DOMAIN arg /\ ~IsPending(ret)) =>
        /\ ~IsExc(ret)
        /\ ret.ret * SecondsPerDay <= Elapsed
        /\ Elapsed < (ret.ret + 1) * SecondsPerDay
        /\ (0 <= Elapsed /\ Elapsed < SecondsPerDay) => ret.ret = 0
        /\ Elapsed = 2 * SecondsPerDay + 2 * 3600 => ret.ret = 2
        /\ Elapsed < 0 => ret.ret < 0
        /\ Elapsed = -3600 => ret.ret = -1
        /\ (/\ arg.admit_time = Stamp(2024, 1, 1, 8, 0, 0)
            /\ arg.discharge_time = Stamp(2024, 1, 3, 10, 0, 0)) => ret.ret = 2

\* The length of stay has been computed for a discharge one hour before the
\* admission.
C9_Witness ==
    /\ "admit_time" \in DOMAIN arg /\ ~IsPending(ret)
    /\ arg.admit_time = Stamp(2024, 1, 1, 8, 0, 0)
    /\ arg.discharge_time = Stamp(2024, 1, 1, 7, 0, 0)
    /\ ret = Ok(-1)

(***************************************************************************)
(* Properties of the handler (Spec)                                        *)
(***************************************************************************)
Handled == 1..Len(requests)

IsPredict(i) == requests[i].route = "/predict"

\* The request's body parsed to a JSON object with at least one key.
HasData(i) ==
    /\ IsPredict(i)
    /\ requests[i].body.kind = "json"
    /\ IsDict(requests[i].body.data)
    /\ Truthy(requests[i].body.data)

DataOf(i) == requests[i].body.data.dict

RecordsOf(i) == {j \in 1..Len(store) : store[j]._id = i}

CallsOf(i, op) == {j \in 1..Len(log) : log[j].req = i /\ log[j].op = op}

\* The feature names of the ten lab values, in the order of LabKeys.
LabFeatures ==
    <<"ntprobnp", "creatinine", "urea nitrogen", "sodium", "potassium",
      "albumin", "c-reactive protein", "hemoglobin", "hematocrit", "magnesium">>

\* C1: the vector handed to the classifier carries each of the ten lab
\* values of the request, unchanged, at that lab's position in the feature
\* order; no lab value is replaced by the default 0.
C1_LabValuesReachClassifier ==
    \A j \in 1..Len(log) :
        log[j].op = "predict" =>
            \A k \in 1..10 :
                log[j].X[IndexOf(feature_order, LabFeatures[k])]
                    = float(DataOf(log[j].req)[LabKeys[k]]).ret

MissingFlags(data) == {k \in 1..10 : FlagRequestKeys[k] \notin DOMAIN data}

WithNanFlags(data) ==
    [k \in {FlagRequestKeys[i] : i \in MissingFlags(data)} |-> Str(NAN)] @@ data

\* C2: a request that omits a *_flag field is handled as if that flag were
\* "nan": whenever the request with "nan" filled in for the omitted flags can
\* be encoded, the request itself is encoded, with 0 for each omitted flag,
\* and it is answered with 500 only if the classifier or the store failed.
C2_MissingFlagIsNan ==
    \A i \in Handled :
        (/\ HasData(i)
         /\ MissingFlags(DataOf(i)) # {}
         /\ ~IsExc(Encode(WithNanFlags(DataOf(i)))))
        => /\ ~IsExc(Encoding(DataOf(i)))
           /\ \A k \in MissingFlags(DataOf(i)) :
                 Encoding(DataOf(i)).ret[FlagKeys[k]] = Num(0)
           /\ responses[i].status = 500 => CallsOf(i, "predict") # {}

\* C3: every POST /predict answered with 200 has exactly one record in the
\* store and every one answered with 400 or 500 has none; a record once
\* written is never changed or removed by a later request.
C3_OneRecordPerSuccess ==
    /\ [](\A i \in Handled :
            IsPredict(i) =>
                /\ responses[i].status \in {200, 400, 500}
                /\ responses[i].status = 200 => Cardinality(RecordsOf(i)) = 1
                /\ responses[i].status \in {400, 500} => RecordsOf(i) = {})
    /\ [][/\ Len(store') >= Len(store)
          /\ \A j \in 1..Len(store) : store'[j] = store[j]]_vars

\* A request answered with 200, then one answered with 500: the store holds
\* the first one's record and nothing else.
C3_Witness ==
    /\ Len(requests) = 2
    /\ IsPredict(1) /\ responses[1].status = 200
    /\ IsPredict(2) /\ responses[2].status = 500
    /\ Len(store) = 1 /\ store[1]._id = 1

\* C4: a POST /predict whose body is absent or is {} is answered with 400 and
\* {error: "No data provided"}; the classifier is not invoked and no record
\* is written for it.
C4_EmptyBodyIs400 ==
    \A i \in Handled :
        (/\ IsPredict(i)
         /\ \/ requests[i].body.kind = "absent"
            \/ requests[i].body = Json(Dict(<<>>)))
        => /\ responses[i] = [status |-> 400, body |-> [error |-> "No data provided"]]
           /\ \A j \in 1..Len(log) : log[j].req # i
           /\ RecordsOf(i) = {}

\* The body is not empty: it is not JSON at all, or it is a JSON value that
\* passes the handler's emptiness test.
NonEmptyBody(i) ==
    /\ IsPredict(i)
    /\ \/ requests[i].body.kind = "malformed"
       \/ requests[i].body.kind = "json" /\ Truthy(requests[i].body.data)

\* A step of the request failed: parsing, reading the fields, the encoding,
\* the classifier or the store.
Failed(i) ==
    \/ requests[i].body.kind = "malformed"
    \/ requests[i].body.kind = "json" /\ ~IsDict(requests[i].body.data)
    \/ HasData(i) /\ IsExc(Encoding(DataOf(i)))
    \/ \E j \in 1..Len(log) : log[j].req = i /\ IsExc(log[j].out)

\* C5: for a POST /predict with a non-empty body, a failure at any step is
\* answered with 500 and a body holding only an error field, never with 200
\* or 400, and leaves no record of the request in the store.
C5_FailureIs500 ==
    \A i \in Handled :
        (NonEmptyBody(i) /\ Failed(i))
        => /\ responses[i].status = 500
           /\ DOMAIN responses[i].body = {"error"}
           /\ RecordsOf(i) = {}

\* A request whose encoding failed and a request whose store write failed
\* have both been answered.
C5_Witness ==
    /\ \E i \in Handled : HasData(i) /\ IsExc(Encoding(DataOf(i)))
    /\ \E j \in 1..Len(log) : log[j].op = "insert_one" /\ IsExc(log[j].out)
    /\ \A i \in Handled : responses[i].status = 500

\* C6: the assembled vector has exactly 31 elements; its i-th element is the
\* merged mapping's value under the i-th name of the feature order, or 0 when
\* the mapping has no such key; assembly never raises on a missing key, so
\* every request that is encoded reaches the classifier.
C6_VectorAssembly ==
    /\ \A j \in 1..Len(log) :
          log[j].op = "predict" =>
              /\ Len(log[j].X) = 31
              /\ \A i \in 1..31 :
                    log[j].X[i] =
                        IF feature_order[i] \in DOMAIN log[j].features
                        THEN log[j].features[feature_order[i]].num
                        ELSE 0
    /\ \A i \in Handled :
          (HasData(i) /\ ~IsExc(Encoding(DataOf(i))))
              => Cardinality(CallsOf(i, "predict")) = 1

\* A vector was assembled from a mapping that lacks one of the 31 names and
\* has a nonzero value under another.
C6_Witness ==
    \E j \in 1..Len(log) :
        /\ log[j].op = "predict"
        /\ \E i \in 1..31 : feature_order[i] \notin DOMAIN log[j].features
        /\ \E i \in 1..31 : log[j].X[i] # 0

\* C10: for every request answered with 200 the stored record agrees with
\* the response: prediction_result is "Yes" exactly when the response's
\* prediction is 1 and "No" otherwise, readmission_probability is the
\* response's probability, and both are what the classifier returned in the
\* request's one invocation (one predict call, one predict_proba call), made
\* before the store write.
C10_RecordAgreesWithResponse ==
    \A i \in Handled :
        (IsPredict(i) /\ responses[i].status = 200)
        => /\ Cardinality(RecordsOf(i)) = 1
           /\ Cardinality(CallsOf(i, "predict")) = 1
           /\ Cardinality(CallsOf(i, "predict_proba")) = 1
           /\ Cardinality(CallsOf(i, "insert_one")) = 1
           /\ LET doc == store[CHOOSE j \in RecordsOf(i) : TRUE].doc
                  p  == CHOOSE j \in CallsOf(i, "predict") : TRUE
                  pp == CHOOSE j \in CallsOf(i, "predict_proba") : TRUE
                  w  == CHOOSE j \in CallsOf(i, "insert_one") : TRUE
              IN  /\ doc["prediction_result"] =
                        Lit(IF responses[i].body.prediction = 1 THEN "Yes" ELSE "No")
                  /\ doc["readmission_probability"] = Num(responses[i].body.probability)
                  /\ log[p].out = Ok(responses[i].body.prediction)
                  /\ log[pp].out = Ok(responses[i].body.probability)
                  /\ p < w /\ pp < w

\* Two requests answered with 200, one predicted 1 and one predicted 0 with
\* a probability above one half.
C10_Witness ==
    /\ Len(store) = 2
    /\ \E i \in Handled : IsPredict(i) /\ responses[i].status = 200
                            /\ responses[i].body.prediction = 1
    /\ \E i \in Handled : IsPredict(i) /\ responses[i].status = 200
                            /\ responses[i].body.prediction = 0
                            /\ responses[i].body.probability = 82

====
